---- MODULE Spec2Model ----
(***************************************************************************)
(* Model of adanoelle/studio: the two shared error enums (GlitchError in   *)
(* glitch-core, StudioError in studio-core) with their status_code lookup, *)
(* constructors and derived Display / source / From implementations, and   *)
(* the two Lambda entry points (api, media-upload) with their cold-start   *)
(* initialisation and placeholder handlers.                                *)
(***************************************************************************)
EXTENDS Integers, Sequences, FiniteSets, TLC

(* ------------------------------ bounds --------------------------------- *)
MaxErrs == 2
MaxReqs == 2

(* ------------------------------ values --------------------------------- *)
\* Option<T>
None == [some |-> FALSE]
Some(v) == [some |-> TRUE, val |-> v]

\* String values, as sequences of characters: the empty string and one with an
\* embedded control character.
Msgs == {<<>>, <<"a", "\n">>}

\* Values usable as `source: impl std::error::Error + Send + Sync + 'static`.
Causes == {[desc |-> "timeoutError"], [desc |-> "connection reset"]}

\* serde_json::Error values: decode failures carry a position, encode failures
\* carry line 0.
SerdeErrors ==
    { [code |-> "key must be a string", line |-> 1, column |-> 2],
      [code |-> "key must be a string", line |-> 0, column |-> 0] }

\* Display of serde_json::Error, as a sequence of text pieces.
SerdeDisplay(se) ==
    IF se.line = 0
    THEN <<se.code>>
    ELSE <<se.code, " at line ", ToString(se.line), " column ", ToString(se.column)>>

Enums == {"GlitchError", "StudioError"}
TupleTags == {"Config", "Validation", "NotFound", "Internal"}
Tags == TupleTags \cup {"Aws", "Serialization"}

Slots == 1..MaxErrs
Addrs == 1..MaxErrs
Ctxs == {"ctxA", "ctxB"}

NoErr == [tag |-> "Empty"]
Free == [free |-> TRUE]
NoCall == [ctor |-> "none"]

Lambdas == {"api", "media-upload"}
Configs == {[region |-> "us-east-1"], [region |-> "eu-west-1"]}
Events == {[method |-> "GET", body |-> <<>>], [method |-> "POST", body |-> <<"a">>]}
NoState == [built |-> FALSE]

VARIABLES
    errs,      \* Slots -> error value held in that place, or NoErr
    heap,      \* Addrs -> the cause stored in that Box allocation, or Free
    hist,      \* Slots -> the constructor call that produced errs[s]
    results,   \* Slots -> the codes status_code has returned for errs[s]
    pc,        \* Lambdas -> position of main
    config,    \* Lambdas -> the SdkConfig loaded by main
    state,     \* Lambdas -> the AppState of main, or NoState
    nBuilt,    \* Lambdas -> number of client constructions so far
    served     \* Lambdas -> sequence of [event, state, response] handled so far

errVars == <<errs, heap, hist, results>>
lambdaVars == <<pc, config, state, nBuilt, served>>
vars == <<errs, heap, hist, results, pc, config, state, nBuilt, served>>

(* --------------------------- GlitchError ------------------------------- *)
\* The enum's values: tuple variants hold their field as f0.
GlitchError ==
    [ty : {"GlitchError"}, tag : TupleTags, f0 : Msgs]
    \cup [ty : {"GlitchError"}, tag : {"Aws"}, message : Msgs,
          source : {None} \cup {Some(a) : a \in Addrs}]
    \cup [ty : {"GlitchError"}, tag : {"Serialization"}, f0 : SerdeErrors]

\* GlitchVariant refusing an empty message.
GlitchVariantNonEmpty(tag, m) ==
    IF m = <<>>
    THEN [ty |-> "GlitchError", tag |-> "Abort"]
    ELSE [ty |-> "GlitchError", tag |-> tag, f0 |-> m]

GlitchVariant(tag, m) == [ty |-> "GlitchError", tag |-> tag, f0 |-> m]

\* GlitchStatusCode with the Validation arm looking at the message.
GlitchStatusCodeByMessage(e) ==
    CASE e.tag = "Config" -> 500
      [] e.tag = "Validation" -> IF e.f0 = <<>> THEN 500 ELSE 400
      [] e.tag = "NotFound" -> 404
      [] e.tag = "Internal" -> 500
      [] e.tag = "Aws" -> 502
      [] e.tag = "Serialization" -> 400

GlitchStatusCode(e) ==
    CASE e.tag = "Config" -> 500
      [] e.tag = "Validation" -> 400
      [] e.tag = "NotFound" -> 404
      [] e.tag = "Internal" -> 500
      [] e.tag = "Aws" -> 502
      [] e.tag = "Serialization" -> 400

\* GlitchAws losing the message.
GlitchAwsNoMessage(message) ==
    [ty |-> "GlitchError", tag |-> "Aws", message |-> <<>>, source |-> None]

GlitchAws(message) ==
    [ty |-> "GlitchError", tag |-> "Aws", message |-> message, source |-> None]

\* box is the allocation Box::new(source) returned.
GlitchAwsWithSource(message, box) ==
    [ty |-> "GlitchError", tag |-> "Aws", message |-> message, source |-> Some(box)]

\* #[from] serde_json::Error
GlitchFrom(se) == [ty |-> "GlitchError", tag |-> "Serialization", f0 |-> se]

\* #[error("...")] : the derived Display.
GlitchDisplay(e) ==
    CASE e.tag = "Config" -> <<"configuration error: ">> \o e.f0
      [] e.tag = "Validation" -> <<"validation error: ">> \o e.f0
      [] e.tag = "NotFound" -> <<"not found: ">> \o e.f0
      [] e.tag = "Internal" -> <<"internal error: ">> \o e.f0
      [] e.tag = "Aws" -> <<"aws error: ">> \o e.message
      [] e.tag = "Serialization" -> <<"serialization error: ">> \o SerdeDisplay(e.f0)

\* GlitchSource without the #[from] field of Serialization.
GlitchSourceAwsOnly(e, h) ==
    CASE e.tag = "Aws" -> IF e.source.some THEN Some(h[e.source.val]) ELSE None
      [] OTHER -> None

\* The derived std::error::Error::source: the #[source] field of Aws, the
\* #[from] field of Serialization, nothing for the other variants.
GlitchSource(e, h) ==
    CASE e.tag = "Aws" -> IF e.source.some THEN Some(h[e.source.val]) ELSE None
      [] e.tag = "Serialization" -> Some(e.f0)
      [] OTHER -> None

(* --------------------------- StudioError ------------------------------- *)
StudioError ==
    [ty : {"StudioError"}, tag : TupleTags, f0 : Msgs]
    \cup [ty : {"StudioError"}, tag : {"Aws"}, message : Msgs,
          source : {None} \cup {Some(a) : a \in Addrs}]
    \cup [ty : {"StudioError"}, tag : {"Serialization"}, f0 : SerdeErrors]

StudioVariant(tag, m) == [ty |-> "StudioError", tag |-> tag, f0 |-> m]

\* StudioStatusCode with NotFound and Validation sharing an arm.
StudioStatusCodeMerged(e) ==
    CASE e.tag = "Config" -> 500
      [] e.tag = "Validation" -> 400
      [] e.tag = "NotFound" -> 400
      [] e.tag = "Internal" -> 500
      [] e.tag = "Aws" -> 502
      [] e.tag = "Serialization" -> 400

StudioStatusCode(e) ==
    CASE e.tag = "Config" -> 500
      [] e.tag = "Validation" -> 400
      [] e.tag = "NotFound" -> 404
      [] e.tag = "Internal" -> 500
      [] e.tag = "Aws" -> 502
      [] e.tag = "Serialization" -> 400

StudioAws(message) ==
    [ty |-> "StudioError", tag |-> "Aws", message |-> message, source |-> None]

StudioAwsWithSource(message, box) ==
    [ty |-> "StudioError", tag |-> "Aws", message |-> message, source |-> Some(box)]

\* StudioFrom flattening the failure into a Validation message.
StudioFromAsValidation(se) ==
    [ty |-> "StudioError", tag |-> "Validation", f0 |-> SerdeDisplay(se)]

StudioFrom(se) == [ty |-> "StudioError", tag |-> "Serialization", f0 |-> se]

StudioDisplay(e) ==
    CASE e.tag = "Config" -> <<"configuration error: ">> \o e.f0
      [] e.tag = "Validation" -> <<"validation error: ">> \o e.f0
      [] e.tag = "NotFound" -> <<"not found: ">> \o e.f0
      [] e.tag = "Internal" -> <<"internal error: ">> \o e.f0
      [] e.tag = "Aws" -> <<"aws error: ">> \o e.message
      [] e.tag = "Serialization" -> <<"serialization error: ">> \o SerdeDisplay(e.f0)

StudioSource(e, h) ==
    CASE e.tag = "Aws" -> IF e.source.some THEN Some(h[e.source.val]) ELSE None
      [] e.tag = "Serialization" -> Some(e.f0)
      [] OTHER -> None

(* ------------------- dispatch on the static type ----------------------- *)
Variant(ty, tag, m) ==
    IF ty = "GlitchError" THEN GlitchVariant(tag, m) ELSE StudioVariant(tag, m)
Aws(ty, m) == IF ty = "GlitchError" THEN GlitchAws(m) ELSE StudioAws(m)
AwsWithSource(ty, m, box) ==
    IF ty = "GlitchError" THEN GlitchAwsWithSource(m, box) ELSE StudioAwsWithSource(m, box)
From(ty, se) == IF ty = "GlitchError" THEN GlitchFrom(se) ELSE StudioFrom(se)
StatusCode(e) ==
    IF e.ty = "GlitchError" THEN GlitchStatusCode(e) ELSE StudioStatusCode(e)
Display(e) == IF e.ty = "GlitchError" THEN GlitchDisplay(e) ELSE StudioDisplay(e)
Source(e, h) == IF e.ty = "GlitchError" THEN GlitchSource(e, h) ELSE StudioSource(e, h)

Live(s) == errs[s] # NoErr
HasBox(e) == e.tag = "Aws" /\ e.source.some

\* BoxNew handing every caller the same allocation.
BoxNewShared(s) == {1}

\* Box::new(source) evaluated to build the error held in place s: a fresh
\* allocation.  Addresses are interchangeable, so an allocation is named after
\* the place whose error will own it; it must not be in use.
BoxNew(s) == {a \in Addrs : a = s /\ heap[a] = Free}

(* ------------------------------ Init ----------------------------------- *)
Init ==
    /\ errs = [s \in Slots |-> NoErr]
    /\ heap = [a \in Addrs |-> Free]
    /\ hist = [s \in Slots |-> NoCall]
    /\ results = [s \in Slots |-> {}]
    /\ pc = [l \in Lambdas |-> "start"]
    /\ config = [l \in Lambdas |-> None]
    /\ state = [l \in Lambdas |-> NoState]
    /\ nBuilt = [l \in Lambdas |-> 0]
    /\ served = [l \in Lambdas |-> <<>>]

(* ------------------------- classifier actions -------------------------- *)
\* A caller builds Config / Validation / NotFound / Internal directly.
NewVariant(s, ty, tag, m) ==
    /\ ~Live(s)
    /\ errs' = [errs EXCEPT ![s] = Variant(ty, tag, m)]
    /\ hist' = [hist EXCEPT ![s] = [ctor |-> "variant", ty |-> ty, tag |-> tag, message |-> m]]
    /\ UNCHANGED <<heap, results, lambdaVars>>

NewAws(s, ty, m) ==
    /\ ~Live(s)
    /\ errs' = [errs EXCEPT ![s] = Aws(ty, m)]
    /\ hist' = [hist EXCEPT ![s] = [ctor |-> "aws", ty |-> ty, message |-> m]]
    /\ UNCHANGED <<heap, results, lambdaVars>>

NewAwsWithSource(s, ty, m, c) ==
    /\ ~Live(s)
    /\ \E a \in BoxNew(s) :
          /\ heap' = [heap EXCEPT ![a] = c]
          /\ errs' = [errs EXCEPT ![s] = AwsWithSource(ty, m, a)]
    /\ hist' = [hist EXCEPT ![s] =
                   [ctor |-> "aws_with_source", ty |-> ty, message |-> m, source |-> c]]
    /\ UNCHANGED <<results, lambdaVars>>

\* The ? operator / .into() on a serde_json::Error.
ConvertSerde(s, ty, se) ==
    /\ ~Live(s)
    /\ errs' = [errs EXCEPT ![s] = From(ty, se)]
    /\ hist' = [hist EXCEPT ![s] = [ctor |-> "from", ty |-> ty, err |-> se]]
    /\ UNCHANGED <<heap, results, lambdaVars>>

\* Classify through a mutable borrow that takes the source out of the error.
ClassifyTakingSource(ctx, s) ==
    /\ Live(s)
    /\ results' = [results EXCEPT ![s] = @ \cup {StatusCode(errs[s])}]
    /\ errs' = [errs EXCEPT ![s] = IF HasBox(@) THEN [@ EXCEPT !.source = None] ELSE @]
    /\ UNCHANGED <<heap, hist, lambdaVars>>

\* status_code(&self) called from context ctx; the returned code is recorded.
Classify(ctx, s) ==
    /\ Live(s)
    /\ results' = [results EXCEPT ![s] = @ \cup {StatusCode(errs[s])}]
    /\ UNCHANGED <<errs, heap, hist, lambdaVars>>

\* The error value is consumed and dropped; an owned Box is freed with it.
DropErr(s) ==
    /\ Live(s)
    /\ heap' = IF HasBox(errs[s])
               THEN [heap EXCEPT ![errs[s].source.val] = Free]
               ELSE heap
    /\ errs' = [errs EXCEPT ![s] = NoErr]
    /\ hist' = [hist EXCEPT ![s] = NoCall]
    /\ results' = [results EXCEPT ![s] = {}]
    /\ UNCHANGED lambdaVars

Next ==
    \/ \E s \in Slots, ty \in Enums, tag \in TupleTags, m \in Msgs : NewVariant(s, ty, tag, m)
    \/ \E s \in Slots, ty \in Enums, m \in Msgs : NewAws(s, ty, m)
    \/ \E s \in Slots, ty \in Enums, m \in Msgs, c \in Causes : NewAwsWithSource(s, ty, m, c)
    \/ \E s \in Slots, ty \in Enums, se \in SerdeErrors : ConvertSerde(s, ty, se)
    \/ \E ctx \in Ctxs, s \in Slots : Classify(ctx, s)
    \/ \E s \in Slots : DropErr(s)

Spec == Init /\ [][Next]_vars

(* ------------------------------ Lambdas -------------------------------- *)
Ok(v) == [ok |-> TRUE, val |-> v]
Err(e) == [ok |-> FALSE, err |-> e]

\* http::response::Builder: status() rejects codes outside 100..=999 and
\* header() rejects an empty header name; body() returns the first error met.
Builder(status, hname, hvalue, body) ==
    IF status < 100 \/ status > 999 THEN Err("invalid status code")
    ELSE IF hname = "" THEN Err("invalid header name")
    ELSE Ok([status |-> status, headers |-> {<<hname, hvalue>>}, body |-> body])

\* The body literals, as the JSON tokens they consist of.
ApiBody == <<"{", "message", ":", "api lambda ready", "}">>
MediaUploadBody == <<"{", "message", ":", "media-upload lambda ready", "}">>

\* ApiHandler rejecting a request that has a body.
ApiHandlerBranching(st, event) ==
    LET resp == Builder(IF event.body = <<>> THEN 200 ELSE 400,
                        "content-type", "application/json", ApiBody)
    IN  IF resp.ok THEN Ok(resp.val) ELSE Err(resp.err)

\* api: handler(_state, _event)
ApiHandler(st, event) ==
    LET resp == Builder(200, "content-type", "application/json", ApiBody)
    IN  IF resp.ok THEN Ok(resp.val) ELSE Err(resp.err)

\* media-upload: handler(_state, _event)
MediaUploadHandler(st, event) ==
    LET resp == Builder(200, "content-type", "application/json", MediaUploadBody)
    IN  IF resp.ok THEN Ok(resp.val) ELSE Err(resp.err)

Handler(l, st, event) ==
    IF l = "api" THEN ApiHandler(st, event) ELSE MediaUploadHandler(st, event)

\* AppState { dynamo: DynamoClient::new(&config) }
ApiAppState(cfg) == [built |-> TRUE, client |-> [kind |-> "DynamoClient", config |-> cfg]]

\* AppState { s3: S3Client::new(&config) }
MediaUploadAppState(cfg) == [built |-> TRUE, client |-> [kind |-> "S3Client", config |-> cfg]]

AppState(l, cfg) == IF l = "api" THEN ApiAppState(cfg) ELSE MediaUploadAppState(cfg)

\* tracing_subscriber::fmt()....init()
InitTracing(l) ==
    /\ pc[l] = "start"
    /\ pc' = [pc EXCEPT ![l] = "tracing"]
    /\ UNCHANGED <<config, state, nBuilt, served, errVars>>

\* aws_config::load_defaults(...).await : the environment decides the result.
LoadConfig(l, cfg) ==
    /\ pc[l] = "tracing"
    /\ config' = [config EXCEPT ![l] = Some(cfg)]
    /\ pc' = [pc EXCEPT ![l] = "config"]
    /\ UNCHANGED <<state, nBuilt, served, errVars>>

\* let state = AppState { ... }
BuildState(l) ==
    /\ pc[l] = "config"
    /\ state' = [state EXCEPT ![l] = AppState(l, config[l].val)]
    /\ nBuilt' = [nBuilt EXCEPT ![l] = @ + 1]
    /\ pc' = [pc EXCEPT ![l] = "state"]
    /\ UNCHANGED <<config, served, errVars>>

\* run(service_fn(...)) starts polling for events.
Run(l) ==
    /\ pc[l] = "state"
    /\ pc' = [pc EXCEPT ![l] = "serving"]
    /\ UNCHANGED <<config, state, nBuilt, served, errVars>>

\* HandleRequest constructing the client again on every invocation.
HandleRequestRebuilding(l, event) ==
    /\ pc[l] = "serving"
    /\ Len(served[l]) < MaxReqs
    /\ state' = [state EXCEPT ![l] = AppState(l, config[l].val)]
    /\ nBuilt' = [nBuilt EXCEPT ![l] = @ + 1]
    /\ served' = [served EXCEPT ![l] =
                     Append(@, [event |-> event, state |-> state'[l],
                                response |-> Handler(l, state'[l], event)])]
    /\ UNCHANGED <<pc, config, errVars>>

\* One invocation: |event| handler(&state, event)
HandleRequest(l, event) ==
    /\ pc[l] = "serving"
    /\ Len(served[l]) < MaxReqs
    /\ served' = [served EXCEPT ![l] =
                     Append(@, [event |-> event, state |-> state[l],
                                response |-> Handler(l, state[l], event)])]
    /\ UNCHANGED <<pc, config, state, nBuilt, errVars>>

LambdaNext ==
    \/ \E l \in Lambdas : InitTracing(l)
    \/ \E l \in Lambdas, cfg \in Configs : LoadConfig(l, cfg)
    \/ \E l \in Lambdas : BuildState(l)
    \/ \E l \in Lambdas : Run(l)
    \/ \E l \in Lambdas, event \in Events : HandleRequest(l, event)

LambdaSpec == Init /\ [][LambdaNext]_vars

(* =============================== claims ================================ *)
Classified(s) == results[s] # {}

\* The status code table of the specification.
SpecTable ==
    [Config |-> 500, Validation |-> 400, NotFound |-> 404,
     Internal |-> 500, Aws |-> 502, Serialization |-> 400]

\* C1: every error value of every variant, whatever its message, classifies to
\* the table value of its variant; the code is a member of {400, 404, 500, 502},
\* every code status_code returned is that value, and two errors of the same
\* variant classify alike.
C1_StatusCodeTable ==
    \A s \in Slots : Live(s) =>
        /\ errs[s].tag \in Tags
        /\ StatusCode(errs[s]) = SpecTable[errs[s].tag]
        /\ StatusCode(errs[s]) \in {400, 404, 500, 502}
        /\ results[s] \subseteq {SpecTable[errs[s].tag]}
        /\ \A t \in Slots :
              (Live(t) /\ errs[t].tag = errs[s].tag)
                  => StatusCode(errs[t]) = StatusCode(errs[s])

\* Two Validation errors, one with the empty message, both classified.
C1_Witness ==
    \E s, t \in Slots :
        /\ errs[s].tag = "Validation" /\ errs[t].tag = "Validation"
        /\ errs[s].f0 = <<>> /\ errs[t].f0 # <<>>
        /\ results[s] = {400} /\ results[t] = {400}

\* C2: aws(m) and aws_with_source(m, c) both give an Aws error that classifies
\* to 502 and carries m; aws(m) has no cause, aws_with_source(m, c) has one, and
\* apart from the cause the two values are the same (same status code, same
\* rendered message).
C2_AwsConstructors ==
    /\ \A s \in Slots : hist[s].ctor \in {"aws", "aws_with_source"} =>
          /\ errs[s].tag = "Aws"
          /\ StatusCode(errs[s]) = 502
          /\ results[s] \subseteq {502}
          /\ errs[s].message = hist[s].message
          /\ Source(errs[s], heap).some = (hist[s].ctor = "aws_with_source")
    /\ \A s, t \in Slots :
          ( /\ hist[s].ctor = "aws" /\ hist[t].ctor = "aws_with_source"
            /\ hist[s].ty = hist[t].ty /\ hist[s].message = hist[t].message )
          => /\ [errs[t] EXCEPT !.source = None] = errs[s]
             /\ Display(errs[t]) = Display(errs[s])
             /\ StatusCode(errs[t]) = StatusCode(errs[s])

\* aws(m) and aws_with_source(m, c) with the same non-empty m, both classified.
C2_Witness ==
    \E s, t \in Slots :
        /\ hist[s].ctor = "aws" /\ hist[t].ctor = "aws_with_source"
        /\ hist[s].ty = hist[t].ty /\ hist[s].message = hist[t].message
        /\ hist[s].message # <<>>
        /\ Classified(s) /\ Classified(t)

\* C3: the error aws_with_source(m, c) returned classifies to 502 and its
\* source is c; its Box belongs to it alone: no other error refers to it, and
\* every allocation in use is owned by exactly one live error.
C3_CauseRoundTrip ==
    /\ \A s \in Slots : hist[s].ctor = "aws_with_source" =>
          /\ StatusCode(errs[s]) = 502
          /\ Source(errs[s], heap) = Some(hist[s].source)
          /\ \A t \in Slots \ {s} :
                (Live(t) /\ HasBox(errs[t])) => errs[t].source.val # errs[s].source.val
    /\ \A a \in Addrs : heap[a] # Free =>
          Cardinality({s \in Slots : Live(s) /\ HasBox(errs[s]) /\ errs[s].source.val = a}) = 1

\* Two live errors built by aws_with_source from different causes, one of them
\* classified.
C3_Witness ==
    \E s, t \in Slots :
        /\ hist[s].ctor = "aws_with_source" /\ hist[t].ctor = "aws_with_source"
        /\ hist[s].source # hist[t].source
        /\ results[s] = {502}

\* C4: converting a serde_json error, from decoding or from encoding, yields
\* the Serialization variant and nothing else, and the result classifies to 400.
C4_SerdeConversion ==
    \A s \in Slots : hist[s].ctor = "from" =>
        /\ errs[s].tag = "Serialization"
        /\ StatusCode(errs[s]) = 400
        /\ results[s] \subseteq {400}

\* A converted encode failure and a converted decode failure, both classified.
C4_Witness ==
    \E s, t \in Slots :
        /\ hist[s].ctor = "from" /\ hist[t].ctor = "from"
        /\ hist[s].err.line = 0 /\ hist[t].err.line # 0
        /\ results[s] = {400} /\ results[t] = {400}

\* C5 as stated: only the Aws variant can expose a cause; a Serialization
\* error, like Config, Validation, NotFound and Internal, exposes none.
C5_OnlyAwsHasCause ==
    \A s \in Slots : Live(s) =>
        IF errs[s].tag = "Aws"
        THEN Source(errs[s], heap) = None
                \/ (Source(errs[s], heap).some /\ Source(errs[s], heap).val \in Causes)
        ELSE Source(errs[s], heap) = None

\* C5 amended: Config, Validation, NotFound and Internal hold a message string
\* and expose no cause; Aws exposes zero or one cause; Serialization holds the
\* serde_json error it was converted from and always exposes it as its cause.
C5_CausePerVariant ==
    \A s \in Slots : Live(s) =>
        CASE errs[s].tag \in TupleTags ->
                /\ errs[s].f0 \in Msgs
                /\ Source(errs[s], heap) = None
          [] errs[s].tag = "Aws" ->
                /\ errs[s].message \in Msgs
                /\ Source(errs[s], heap) = None
                      \/ ( /\ Source(errs[s], heap).some
                           /\ Source(errs[s], heap).val \in Causes )
          [] errs[s].tag = "Serialization" ->
                /\ errs[s].f0 \in SerdeErrors
                /\ Source(errs[s], heap) = Some(errs[s].f0)
                /\ hist[s].ctor = "from" => errs[s].f0 = hist[s].err

\* A live Serialization error next to a live Aws error that owns a cause.
C5_Witness ==
    \E s, t \in Slots :
        /\ errs[s].tag = "Serialization"
        /\ errs[t].tag = "Aws" /\ errs[t].source.some

\* The variants of each enum.
GlitchTags == {e.tag : e \in GlitchError}
StudioTags == {e.tag : e \in StudioError}

\* C6: GlitchError and StudioError have the same variants, and a GlitchError
\* and a StudioError built by the same constructor from the same inputs have
\* the same status code, the same rendered message and the same cause presence.
C6_SameClassifier ==
    /\ GlitchTags = StudioTags
    /\ \A s, t \in Slots :
          ( /\ Live(s) /\ Live(t)
            /\ errs[s].ty = "GlitchError" /\ errs[t].ty = "StudioError"
            /\ [hist[s] EXCEPT !.ty = "any"] = [hist[t] EXCEPT !.ty = "any"] )
          => /\ errs[s].tag = errs[t].tag
             /\ StatusCode(errs[s]) = StatusCode(errs[t])
             /\ Display(errs[s]) = Display(errs[t])
             /\ Source(errs[s], heap).some = Source(errs[t], heap).some
             /\ (Classified(s) /\ Classified(t)) => results[s] = results[t]

\* A GlitchError and a StudioError built alike, both classified.
C6_Witness ==
    \E s, t \in Slots :
        /\ Live(s) /\ Live(t)
        /\ errs[s].ty = "GlitchError" /\ errs[t].ty = "StudioError"
        /\ [hist[s] EXCEPT !.ty = "any"] = [hist[t] EXCEPT !.ty = "any"]
        /\ errs[s].tag = "NotFound"
        /\ Classified(s) /\ Classified(t)

\* C7: status_code has no side effects.  All the codes returned for one error
\* are the same code; a step that returns a code leaves every error, the heap
\* and the Lambda state unchanged; and an error value, its cause included, is
\* the same from its construction until it is dropped.
C7_ClassifyPure ==
    /\ [](\A s \in Slots :
             Classified(s) => (Live(s) /\ results[s] = {StatusCode(errs[s])}))
    /\ [][ (\E s \in Slots : results'[s] # results[s] /\ results'[s] # {})
              => UNCHANGED <<errs, heap, hist, lambdaVars>> ]_vars
    /\ [][ \A s \in Slots : Live(s) =>
              \/ errs'[s] = NoErr
              \/ /\ errs'[s] = errs[s]
                 /\ Source(errs'[s], heap') = Source(errs[s], heap)
                 /\ hist'[s] = hist[s] ]_vars

\* An error owning a cause and another live error, both classified.
C7_Witness ==
    \E s, t \in Slots :
        /\ s # t
        /\ Live(s) /\ HasBox(errs[s]) /\ Classified(s)
        /\ Live(t) /\ Classified(t)

\* C8: every constructor call returns an error value of the requested type and
\* variant, for every message and cause.
C8_ConstructionTotal ==
    \A s \in Slots : hist[s] # NoCall =>
        /\ errs[s] \in GlitchError \cup StudioError
        /\ errs[s].ty = hist[s].ty
        /\ errs[s].tag = CASE hist[s].ctor = "variant" -> hist[s].tag
                           [] hist[s].ctor \in {"aws", "aws_with_source"} -> "Aws"
                           [] hist[s].ctor = "from" -> "Serialization"

\* An error built from the empty message next to one built from a control
\* character.
C8_Witness ==
    \E s, t \in Slots :
        /\ hist[s].ctor = "variant" /\ hist[s].message = <<>>
        /\ hist[t].ctor \in {"variant", "aws", "aws_with_source"}
        /\ hist[t].message = <<"a", "\n">>
        /\ Live(s) /\ Live(t)

\* C9: in both Lambdas the client is constructed exactly once, before the
\* first request is handled; every request is handled with that state, and
\* once built the state is never modified or replaced.
C9_ClientBuiltOnce ==
    /\ [](\A l \in Lambdas :
             /\ nBuilt[l] <= 1
             /\ state[l].built <=> nBuilt[l] = 1
             /\ pc[l] = "serving" => state[l].built
             /\ served[l] # <<>> => pc[l] = "serving"
             /\ state[l].built =>
                   /\ state[l].client.kind
                         = (IF l = "api" THEN "DynamoClient" ELSE "S3Client")
                   /\ Some(state[l].client.config) = config[l]
             /\ \A i \in 1..Len(served[l]) : served[l][i].state = state[l])
    /\ [][ \A l \in Lambdas :
              /\ state[l].built => (state'[l] = state[l] /\ nBuilt'[l] = nBuilt[l])
              /\ served'[l] # served[l] => (state[l].built /\ nBuilt[l] = 1) ]_vars

\* Both Lambdas have handled two requests.
C9_Witness == \A l \in Lambdas : Len(served[l]) >= 2

ErrorCodes == {400, 404, 500, 502}

\* The keys of a flat JSON object given as its tokens.
JsonKeys(body) ==
    IF Len(body) < 2 \/ body[1] # "{" \/ body[Len(body)] # "}"
    THEN {}
    ELSE {body[i] : i \in {j \in 2..(Len(body) - 2) : body[j + 1] = ":"}}

\* C10: every request, whatever its content, is answered by each handler with
\* status 200, content type application/json and the handler's fixed JSON body
\* with a message field; all answers of a handler are the same, and none has a
\* status code of the classifier.
C10_PlaceholderResponse ==
    \A l \in Lambdas : \A i \in 1..Len(served[l]) :
        LET r == served[l][i].response
        IN  /\ r.ok
            /\ r.val.status = 200
            /\ r.val.status \notin ErrorCodes
            /\ r.val.headers = {<<"content-type", "application/json">>}
            /\ r.val.body = (IF l = "api" THEN ApiBody ELSE MediaUploadBody)
            /\ "message" \in JsonKeys(r.val.body)
            /\ \A j \in 1..Len(served[l]) : served[l][j].response = r

\* The api handler has answered two different requests and the media-upload
\* handler has answered one.
C10_Witness ==
    /\ \E i, j \in 1..Len(served["api"]) :
          served["api"][i].event # served["api"][j].event
    /\ Len(served["media-upload"]) >= 1
====
